---------------------------- MODULE Spec2Model ----------------------------
(***************************************************************************)
(* Model of fin_python_v2.py: the ETL job that extracts attempt records    *)
(* from the statistics API, validates them, aggregates them for Google     *)
(* Sheets and loads them into a PostgreSQL table.                          *)
(*                                                                         *)
(* Python values are tagged records, so that values of different Python    *)
(* types can be compared: None, Str("..."), Num(n).  A dict is a function  *)
(* whose DOMAIN is its key set.  A list is a sequence.                      *)
(***************************************************************************)
EXTENDS Integers, Sequences, FiniteSets, Bags, TLC

VARIABLES
    pc,            \* the call the script is at (it stays there on sys.exit)
    exit_code,     \* None while the process runs, then Num(0) or Num(1)
    log,           \* the set of stages that called logger.error
    start_day,     \* argument of get_data
    finish_day,    \* argument of get_data
    server,        \* what the statistics API answers: [up, body]
    requests,      \* number of HTTP requests issued by get_data
    api_data,      \* api_data1
    valid_data,    \* valid_data1
    gs_data,       \* gs_data, the result of calc_for_gsheets
    gs_auth,       \* gs_auth, the result of auth_goo_shee
    sheet,         \* rows written to the worksheet
    con,           \* "none", "open" or "closed": the psycopg2 connection
    txn,           \* "idle", "active" or "aborted": its transaction
    table_exists,  \* committed: the target table exists
    committed,     \* committed rows of the target table (a bag of rows)
    last_load      \* what the last load_data_to_db call did

vars == <<pc, exit_code, log, start_day, finish_day, server, requests,
          api_data, valid_data, gs_data, gs_auth, sheet, con, txn, table_exists,
          committed, last_load>>

-----------------------------------------------------------------------------
(* Bounds of the model. *)

\* longest raw batch the API answers in a run of the script
MaxBatch == 2
\* longest batch handed to load_data_to_db by a Database client
MaxLoad == 2
\* longest sequence handed to calc_for_gsheets on its own
MaxAgg == 3
\* last day of May 2024 among the dates handed to get_data
MaxDay == 9

-----------------------------------------------------------------------------
(* Python values. *)

None == [t |-> "none"]

Str(s) == [t |-> "str", v |-> s]

Num(n) == [t |-> "int", v |-> n]

IsStr(x) == x.t = "str"

\* dict.get(key): None when the key is absent
Get(d, k) == IF k \in DOMAIN d THEN d[k] ELSE None

\* the exceptions the script can meet, as atoms
ValueError == "ValueError"

AttributeError == "AttributeError"

-----------------------------------------------------------------------------
(* get_data: the date gate. *)

\* A date argument is a string.  One that matches ^\d{4}-\d{2}-\d{2}$ is
\* modelled by its three numbers; Malformed stands for one that does not
\* (such as "2024/05/01").
Ymd(y, m, d) == [pattern |-> TRUE, y |-> y, m |-> m, d |-> d]

Malformed == [pattern |-> FALSE, y |-> 0, m |-> 0, d |-> 0]

\* date_pattern.match(s)
MatchesPattern(s) == s.pattern

IsLeap(y) == (y % 4 = 0 /\ y % 100 # 0) \/ y % 400 = 0

DaysInMonth(y, m) ==
    IF m = 2 THEN (IF IsLeap(y) THEN 29 ELSE 28)
    ELSE IF m \in {4, 6, 9, 11} THEN 30 ELSE 31

\* datetime.strptime(s, "%Y-%m-%d") raises ValueError for a day or month that
\* does not exist
StrptimeOk(s) ==
    /\ s.m \in 1..12
    /\ s.d \in 1..DaysInMonth(s.y, s.m)

RECURSIVE DaysBeforeMonth(_, _)
DaysBeforeMonth(y, m) ==
    IF m = 1 THEN 0 ELSE DaysBeforeMonth(y, m - 1) + DaysInMonth(y, m - 1)

\* the day number of a parsed date within its year (every date of the model
\* is of 2024); (finish_date - start_date).days is the difference of two
Ordinal(s) == DaysBeforeMonth(s.y, s.m) + s.d

\* mutant: the span test compares with 7 instead of 6
DateGate_OffByOne(start, finish) ==
    IF ~MatchesPattern(start) \/ ~MatchesPattern(finish) THEN ValueError
    ELSE IF ~StrptimeOk(start) \/ ~StrptimeOk(finish) THEN ValueError
    ELSE IF Ordinal(start) > Ordinal(finish) THEN ValueError
    ELSE IF Ordinal(finish) - Ordinal(start) > 7 THEN ValueError
    ELSE "ok"

\* lines 57-75 of get_data: "ok", or the ValueError raised before the request
DateGate(start, finish) ==
    IF ~MatchesPattern(start) \/ ~MatchesPattern(finish) THEN ValueError
    ELSE IF ~StrptimeOk(start) \/ ~StrptimeOk(finish) THEN ValueError
    ELSE IF Ordinal(start) > Ordinal(finish) THEN ValueError
    ELSE IF Ordinal(finish) - Ordinal(start) > 6 THEN ValueError
    ELSE "ok"

-----------------------------------------------------------------------------
(* validate_data. *)

\* The contents of the passback_params strings of the model.
PB_FULL == "{'oauth_consumer_key': 'key', 'lis_result_sourcedid': 'sid', 'lis_outcome_service_url': 'url'}"

PB_PART == "{'oauth_consumer_key': 'key', 'lis_result_sourcedid': null}"

PB_NUMBER == "{'oauth_consumer_key': 5}"

PB_BROKEN == "{'oauth_consumer_key': "

PB_LIST == "['key']"

\* json.loads(passback_params.replace("'", '"')): the dict a string decodes
\* to, a list, or the JSONDecodeError (a ValueError) of a string that is not
\* JSON
JsonLoads(s) ==
    CASE s = PB_FULL ->
           [kind |-> "dict",
            value |-> [oauth_consumer_key |-> Str("key"),
                       lis_result_sourcedid |-> Str("sid"),
                       lis_outcome_service_url |-> Str("url")]]
      [] s = PB_PART ->
           [kind |-> "dict",
            value |-> [oauth_consumer_key |-> Str("key"),
                       lis_result_sourcedid |-> None]]
      [] s = PB_NUMBER ->
           [kind |-> "dict", value |-> [oauth_consumer_key |-> Num(5)]]
      [] s = PB_LIST ->
           [kind |-> "list", value |-> <<Str("key")>>]
      [] OTHER ->
           [kind |-> ValueError, value |-> <<>>]

required_fields ==
    <<"lti_user_id", "passback_params", "is_correct", "attempt_type", "created_at">>

\* is_correct not in (0, 1, None)
IsCorrectOk(v) == v = None \/ (v.t = "int" /\ v.v \in {0, 1})

\* lines 124-144: the three derived fields, or the exception raised
PassbackFields(pb) ==
    IF pb = None
    THEN [err |-> "", oauth_consumer_key |-> None,
          lis_result_sourcedid |-> None, lis_outcome_service_url |-> None]
    ELSE IF ~IsStr(pb)
    THEN [err |-> ValueError]
    ELSE LET j == JsonLoads(pb.v) IN
         IF j.kind = ValueError THEN [err |-> ValueError]
         ELSE IF j.kind = "list" THEN [err |-> AttributeError]
         ELSE IF \E k \in DOMAIN j.value :
                    j.value[k] # None /\ ~IsStr(j.value[k])
         THEN [err |-> ValueError]
         ELSE [err |-> "",
               oauth_consumer_key |-> Get(j.value, "oauth_consumer_key"),
               lis_result_sourcedid |-> Get(j.value, "lis_result_sourcedid"),
               lis_outcome_service_url |-> Get(j.value, "lis_outcome_service_url")]

\* lines 99-163, the body of the loop for one row: the canonical record
\* appended to validated_data, or the exception raised
ValidateRow(row) ==
    IF \E i \in DOMAIN required_fields : required_fields[i] \notin DOMAIN row
    THEN [err |-> ValueError]
    ELSE IF row.lti_user_id # None /\ ~IsStr(row.lti_user_id)
    THEN [err |-> ValueError]
    ELSE IF ~IsCorrectOk(row.is_correct)
    THEN [err |-> ValueError]
    ELSE LET p == PassbackFields(row.passback_params) IN
         IF p.err # "" THEN [err |-> p.err]
         ELSE IF ~IsStr(row.attempt_type) \/ ~IsStr(row.created_at)
         THEN [err |-> ValueError]
         ELSE [err |-> "",
               rec |-> [user_id |-> row.lti_user_id,
                        oauth_consumer_key |-> p.oauth_consumer_key,
                        lis_result_sourcedid |-> p.lis_result_sourcedid,
                        lis_outcome_service_url |-> p.lis_outcome_service_url,
                        is_correct |-> row.is_correct,
                        attempt_type |-> row.attempt_type,
                        created_at |-> row.created_at]]

\* lines 96-166: the loop.  A ValueError is logged and the row left out; any
\* other exception leaves the function.
RECURSIVE ValidateLoop(_, _, _)
ValidateLoop(data, idx, validated_data) ==
    IF idx > Len(data) THEN [raised |-> "", validated_data |-> validated_data]
    ELSE LET r == ValidateRow(data[idx]) IN
         IF r.err = "" THEN ValidateLoop(data, idx + 1, Append(validated_data, r.rec))
         ELSE IF r.err = ValueError THEN ValidateLoop(data, idx + 1, validated_data)
         ELSE [raised |-> r.err, validated_data |-> validated_data]

\* mutant: no guard against an empty batch
EmptyGuard_Absent(data) == FALSE

\* line 95: "... if data else sys.exit(1)": TRUE when the function exits
EmptyGuard(data) == Len(data) = 0

\* mutant: the rows that passed are returned whatever their number
ValidationGate_Partial(validated_data, data) == TRUE

\* line 168: the batch is returned only if no row was left out
ValidationGate(validated_data, data) == Len(validated_data) = Len(data)

\* validate_data(data): "return" with the list, "exit" for sys.exit(1), or
\* "raise" for an exception that leaves the function
validate_data(data) ==
    IF EmptyGuard(data) THEN [kind |-> "exit", value |-> <<>>]
    ELSE LET r == ValidateLoop(data, 1, <<>>) IN
         IF r.raised # "" THEN [kind |-> "raise", value |-> <<>>]
         ELSE IF ValidationGate(r.validated_data, data)
         THEN [kind |-> "return", value |-> r.validated_data]
         ELSE [kind |-> "exit", value |-> <<>>]

-----------------------------------------------------------------------------
(* calc_for_gsheets. *)

IndexError == "IndexError"

ZeroDivisionError == "ZeroDivisionError"

\* The created_at strings of the model.
T1000 == "2024-05-01 10:00:00"

T1030 == "2024-05-01 10:30:00"

T1100 == "2024-05-01 11:00:00"

\* a string without a space: created_at need only be a string to be valid
TDateOnly == "2024-05-01"

\* line 335, time.split(" ")[1].split(":")[0]: the hour token, or the
\* IndexError of a string that has no second space-separated part
HourToken(time) ==
    CASE time = T1000 -> [err |-> "", hour |-> "10"]
      [] time = T1030 -> [err |-> "", hour |-> "10"]
      [] time = T1100 -> [err |-> "", hour |-> "11"]
      [] OTHER -> [err |-> IndexError, hour |-> ""]

\* round(num / den * scale, digits) as the integer round(...) * 10^digits,
\* given num * scale * 10^digits: Python rounds to the nearest, a tie to even
RoundHalfEven(num, den) ==
    LET q == num \div den
        r == num % den
    IN  IF 2 * r < den THEN q
        ELSE IF 2 * r > den THEN q + 1
        ELSE IF q % 2 = 0 THEN q ELSE q + 1

\* position of key k in a dict kept as a sequence of [key, value] in insertion
\* order, 0 when absent
IndexOfKey(d, k) ==
    IF \E i \in DOMAIN d : d[i].key = k
    THEN CHOOSE i \in DOMAIN d : d[i].key = k
    ELSE 0

\* mutant: rows without a user are counted like the others
Counted_All(row) == TRUE

\* line 324: "if user is not None"
Counted(row) == row.user_id # None

\* lines 325-339, the body of the loop for one row; acc holds gs_result,
\* users_acts and time_d
CalcRow(acc, row) ==
    IF ~Counted(row) THEN acc
    ELSE LET h == HourToken(row.created_at.v)
             u == IndexOfKey(acc.users_acts, row.user_id)
             counts ==
                 [acc EXCEPT
                    !.all_attempts = @ + 1,
                    !.run_attempts = @ + (IF row.is_correct = None THEN 1 ELSE 0),
                    !.submits = @ + (IF row.is_correct # None THEN 1 ELSE 0),
                    !.successfull_submits =
                        @ + (IF row.is_correct = Num(1) THEN 1 ELSE 0),
                    !.users_acts =
                        IF u = 0
                        THEN Append(@, [key |-> row.user_id,
                                        value |-> <<row.is_correct>>])
                        ELSE [@ EXCEPT ![u].value = Append(@, row.is_correct)]]
         IN  IF h.err # "" THEN [counts EXCEPT !.err = h.err]
             ELSE LET t == IndexOfKey(acc.time_d, h.hour) IN
                  [counts EXCEPT
                     !.time_d =
                        IF t = 0 THEN Append(@, [key |-> h.hour, value |-> 1])
                        ELSE [@ EXCEPT ![t].value = @ + 1]]

\* lines 312-339: the loop, left at the first exception
RECURSIVE CalcLoop(_, _, _)
CalcLoop(data, idx, acc) ==
    IF idx > Len(data) \/ acc.err # "" THEN acc
    ELSE CalcLoop(data, idx + 1, CalcRow(acc, data[idx]))

\* line 346, max(time_d, key=time_d.get): the first key, in insertion order,
\* whose count is the largest
MaxHour(time_d) ==
    LET i == CHOOSE i \in DOMAIN time_d :
                 /\ \A j \in DOMAIN time_d : time_d[j].value <= time_d[i].value
                 /\ \A j \in 1..(i - 1) : time_d[j].value < time_d[i].value
    IN  time_d[i].key

RECURSIVE SumOf(_)
SumOf(s) == IF s = <<>> THEN 0 ELSE Head(s) + SumOf(Tail(s))

\* lines 352-355: whether one act [created_at, is_correct] of a user is
\* counted in column col of users_summary
InColumn(a, col) ==
    CASE col = 0 -> TRUE
      [] col = 1 -> a = None
      [] col = 2 -> a # None
      [] col = 3 -> a = Num(1)

CountActs(acts, col) == Cardinality({i \in DOMAIN acts : InColumn(acts[i], col)})

\* lines 360-370, round(mean([value[col] ...]), 1), in tenths
MeanTenths(users_acts, col) ==
    RoundHalfEven(
        10 * SumOf([i \in DOMAIN users_acts |->
                      CountActs(users_acts[i].value, col)]),
        Len(users_acts))

\* lines 311-372: the dict built, or the exception raised on the way.
\* percent is in hundredths of a percent and the averages are in tenths, the
\* digits that round() keeps.
CalcOutcome(data) ==
    LET acc == CalcLoop(data, 1,
                   [err |-> "", all_attempts |-> 0, run_attempts |-> 0,
                    submits |-> 0, successfull_submits |-> 0,
                    users_acts |-> <<>>, time_d |-> <<>>])
    IN  IF acc.err # "" THEN [raised |-> acc.err]
        ELSE IF acc.submits = 0 THEN [raised |-> ZeroDivisionError]
        ELSE IF acc.time_d = <<>> THEN [raised |-> ValueError]
        ELSE [raised |-> "",
              gs_result |->
                [t |-> "dict",
                 all_attempts |-> acc.all_attempts,
                 run_attempts |-> acc.run_attempts,
                 submits |-> acc.submits,
                 successfull_submits |-> acc.successfull_submits,
                 percent_of_successfull_submits |->
                     RoundHalfEven(acc.successfull_submits * 10000, acc.submits),
                 unique_users |-> Len(acc.users_acts),
                 max_activity_hour |-> MaxHour(acc.time_d),
                 avg_attempts_per_user |-> MeanTenths(acc.users_acts, 0),
                 avg_run_attempts_per_user |-> MeanTenths(acc.users_acts, 1),
                 avg_submits_per_user |-> MeanTenths(acc.users_acts, 2),
                 avg_successfull_submits_per_user |->
                     MeanTenths(acc.users_acts, 3)]]

\* calc_for_gsheets(data): gs_result, or None when the function's own
\* "except Exception" (lines 374-375) caught an exception and logged it
calc_for_gsheets(data) ==
    LET r == CalcOutcome(data) IN
    IF r.raised = "" THEN r.gs_result ELSE None

-----------------------------------------------------------------------------
(* Database: the table and the transaction of the connection. *)

\* A table is the bag of its rows (the seven columns; the SERIAL id only
\* tells two equal rows apart, which the multiplicity of the bag does).

\* SQL's three-valued logic: "t", "f" or "u" (unknown); %s bound to None is NULL
SqlEq(a, b) == IF a = None \/ b = None THEN "u" ELSE IF a = b THEN "t" ELSE "f"

SqlIsNull(a) == IF a = None THEN "t" ELSE "f"

SqlOr(p, q) ==
    IF p = "t" \/ q = "t" THEN "t" ELSE IF p = "f" /\ q = "f" THEN "f" ELSE "u"

SqlAnd(p, q) ==
    IF p = "f" \/ q = "f" THEN "f" ELSE IF p = "t" /\ q = "t" THEN "t" ELSE "u"

\* mutant: a NULL parameter matches every user_id, a NULL column too
Where_EitherNull(r, user_id, created_at) ==
    /\ (r.user_id = user_id \/ r.user_id = None \/ user_id = None)
    /\ r.created_at = created_at

\* mutant: the WHERE clause without "or user_id is Null"
Where_NoNullBranch(r, user_id, created_at) ==
    SqlAnd(SqlEq(r.user_id, user_id), SqlEq(r.created_at, created_at)) = "t"

\* line 263, WHERE (user_id = %s or user_id is Null) AND created_at = %s:
\* whether stored row r is selected
Where(r, user_id, created_at) ==
    SqlAnd(SqlOr(SqlEq(r.user_id, user_id), SqlIsNull(r.user_id)),
           SqlEq(r.created_at, created_at)) = "t"

\* lines 260-266, SELECT COUNT(*) ... over the rows the transaction sees
SelectCount(rows, row) ==
    LET hit == {r \in DOMAIN rows : Where(r, row.user_id, row.created_at)}
    IN  BagCardinality([r \in hit |-> rows[r]])

\* mutant: the handler commits what the transaction holds
ExceptStorageError_Commit(rows, inserted) == rows (+) inserted

\* lines 294-295: the psycopg2.Error is logged and nothing is committed; the
\* rows inserted by the failed transaction are never part of the table
ExceptStorageError(rows, inserted) == rows

\* lines 258-290, the loop from record idx on.  rows is the committed table,
\* inserted the rows inserted so far by this transaction, failAt the record
\* at which a statement raises psycopg2.Error (0: none does).  trace keeps,
\* for every record processed, the rows it was compared with and its count.
RECURSIVE LoadLoop(_, _, _, _, _, _, _)
LoadLoop(rows, vdata, idx, inserted, skipped_count, trace, failAt) ==
    IF idx > Len(vdata)
    THEN [raised |-> FALSE, inserted |-> inserted,
          skipped_count |-> skipped_count, trace |-> trace]
    ELSE IF failAt = idx
    THEN [raised |-> TRUE, inserted |-> inserted,
          skipped_count |-> skipped_count, trace |-> trace]
    ELSE LET row == vdata[idx]
             seen == rows (+) inserted
             count == SelectCount(seen, row)
         IN  LoadLoop(rows, vdata, idx + 1,
                      IF count = 0 THEN inserted (+) SetToBag({row}) ELSE inserted,
                      skipped_count + count,
                      Append(trace, [seen |-> seen, count |-> count]),
                      failAt)

\* The statement of load_data_to_db that raises, given the one the server is
\* to fail (failAt, 0 for none): in an aborted transaction, or without the
\* table, the first statement raises.
FirstError(vdata, failAt, exists, state) ==
    IF Len(vdata) > 0 /\ (state = "aborted" \/ ~exists) THEN 1 ELSE failAt

\* The records of vdata at which the server may fail a statement of the call
\* (Len(vdata) + 1: the commit; 0: nowhere).  Where the first statement
\* raises anyway, the choice changes nothing.
FailPoints(vdata) ==
    IF Len(vdata) > 0 /\ (txn = "aborted" \/ ~table_exists)
    THEN {0}
    ELSE 0..(Len(vdata) + 1)

\* load_data_to_db(table_name, vdata) on a table holding rows: the table
\* afterwards, the state of the transaction, and what the call did
load_data_to_db(rows, exists, state, vdata, failAt) ==
    LET at == FirstError(vdata, failAt, exists, state)
        r == LoadLoop(rows, vdata, 1, EmptyBag, 0, <<>>, at)
        commitFails == at = Len(vdata) + 1 /\ state # "aborted"
    IN  IF r.raised \/ commitFails
        THEN [ok |-> FALSE, rows |-> ExceptStorageError(rows, r.inserted),
              txn |-> "aborted", inserted |-> 0,
              rolled_back |-> BagCardinality(r.inserted),
              skipped_count |-> 0, trace |-> <<>>]
        ELSE IF state = "aborted"
        THEN \* no statement was executed; commit() ends the failed transaction
             [ok |-> TRUE, rows |-> rows, txn |-> "idle", inserted |-> 0,
              rolled_back |-> 0, skipped_count |-> 0, trace |-> <<>>]
        ELSE [ok |-> TRUE, rows |-> rows (+) r.inserted, txn |-> "idle",
              inserted |-> BagCardinality(r.inserted), rolled_back |-> 0,
              skipped_count |-> r.skipped_count, trace |-> r.trace]

\* last_load before any call.  called: load_data_to_db was called; ok: it
\* reached "Data loaded ... successfully"; again: the call before it was given
\* the same batch, ended ok and left the table this call found; vdata, before,
\* after: the batch and the committed table before and after the call;
\* inserted: rows it committed; rolled_back: rows its transaction had inserted
\* when it failed; skipped_count: the number it logged; trace: per record,
\* the rows the SELECT saw and its count.
NoLoad ==
    [called |-> FALSE, again |-> FALSE, ok |-> FALSE,
     vdata |-> <<>>, before |-> EmptyBag, after |-> EmptyBag, inserted |-> 0,
     prev_inserted |-> 0, rolled_back |-> 0, skipped_count |-> 0,
     trace |-> <<>>]

\* last_load after a call that did r on batch vdata
Loaded(r, vdata) ==
    [called |-> TRUE,
     again |-> last_load.called /\ last_load.ok /\ last_load.vdata = vdata
               /\ last_load.after = committed,
     ok |-> r.ok, vdata |-> vdata, before |-> committed, after |-> r.rows,
     inserted |-> r.inserted, prev_inserted |-> last_load.inserted,
     rolled_back |-> r.rolled_back, skipped_count |-> r.skipped_count,
     trace |-> r.trace]

\* the effect of load_data_to_db(table, vdata) on the variables of the store
DoLoad(vdata, failAt) ==
    \E r \in {load_data_to_db(committed, table_exists, txn, vdata, failAt)} :
    /\ committed' = r.rows
    /\ txn' = r.txn
    /\ last_load' = Loaded(r, vdata)
    /\ log' = IF r.ok THEN log ELSE log \cup {"load_data_to_db"}
    /\ UNCHANGED table_exists

\* the effect of create_table(table): lines 218-252.  fails: a statement of
\* the call raises psycopg2.Error
DoCreateTable(fails) ==
    IF fails \/ txn = "aborted"
    THEN /\ txn' = "aborted"
         /\ log' = log \cup {"create_table"}
         /\ UNCHANGED table_exists
    ELSE /\ txn' = IF table_exists THEN "active" ELSE "idle"
         /\ table_exists' = TRUE
         /\ UNCHANGED log

\* the effect of get_all_tables(): lines 202-214
DoGetAllTables(fails) ==
    IF fails \/ txn = "aborted"
    THEN /\ txn' = "aborted"
         /\ log' = log \cup {"get_all_tables"}
    ELSE /\ txn' = "active"
         /\ UNCHANGED log

-----------------------------------------------------------------------------
(* The inputs of the model. *)

Raw(u, pb, ic, at, ca) ==
    [lti_user_id |-> u, passback_params |-> pb, is_correct |-> ic,
     attempt_type |-> at, created_at |-> ca]

\* raw records that pass every check of validate_data
GoodRaw ==
    { Raw(Str("u1"), Str(PB_FULL), None, Str("run"), Str(T1000)),
      Raw(Str("u1"), Str(PB_PART), Num(1), Str("submit"), Str(T1030)),
      Raw(Str("u1"), None, Num(0), Str("submit"), Str(T1100)),
      Raw(Str("u2"), None, Num(1), Str("submit"), Str(T1000)),
      Raw(None, None, None, Str("run"), Str(T1000)),
      Raw(None, None, Num(1), Str("submit"), Str(T1100)),
      Raw(Str("u2"), None, Num(0), Str("submit"), Str(TDateOnly)) }

\* raw records that fail one check each
BadRaw ==
    { [lti_user_id |-> Str("u1"), passback_params |-> None,
       is_correct |-> Num(1), attempt_type |-> Str("submit")],
      Raw(Num(7), None, Num(1), Str("submit"), Str(T1000)),
      Raw(Str("u1"), None, Num(2), Str("submit"), Str(T1000)),
      Raw(Str("u1"), Num(1), Num(1), Str("submit"), Str(T1000)),
      Raw(Str("u1"), Str(PB_NUMBER), Num(1), Str("submit"), Str(T1000)),
      Raw(Str("u1"), Str(PB_BROKEN), Num(1), Str("submit"), Str(T1000)),
      Raw(Str("u1"), Str(PB_LIST), Num(1), Str("submit"), Str(T1000)),
      Raw(Str("u1"), None, Num(1), None, Str(T1000)) }

SeqsUpTo(S, n) == UNION {[1..k -> S] : k \in 0..n}

\* a canonical record with no passback fields
Canonical(u, ic, ca) ==
    [user_id |-> u, oauth_consumer_key |-> None, lis_result_sourcedid |-> None,
     lis_outcome_service_url |-> None, is_correct |-> ic,
     attempt_type |-> IF ic = None THEN Str("run") ELSE Str("submit"),
     created_at |-> Str(ca)]

UserIds == {None, Str("u1"), Str("u2")}

\* the records handed to calc_for_gsheets on its own
AggRecords ==
    {Canonical(u, ic, ca) : u \in UserIds, ic \in {None, Num(0), Num(1)},
                            ca \in {T1000, T1100}}
    \cup {Canonical(Str("u1"), ic, T1030) : ic \in {None, Num(0), Num(1)}}
    \cup {Canonical(Str("u1"), Num(1), TDateOnly)}

\* the records handed to load_data_to_db by a client of Database
LoadRecords == {Canonical(u, None, ca) : u \in UserIds, ca \in {T1000, T1100}}

\* the tables a client of Database may find
ClientTables == {SetToBag(S) : S \in SUBSET LoadRecords}

\* the tables a run of the script may find
ScriptTables ==
    {EmptyBag, SetToBag({Canonical(Str("u1"), Num(0), T1100)}),
     SetToBag({Canonical(None, None, T1000)})}

\* the date strings handed to get_data
Days ==
    {Malformed}
    \cup {Ymd(2024, 4, d) : d \in 28..31}
    \cup {Ymd(2024, 5, d) : d \in 1..MaxDay}

-----------------------------------------------------------------------------
(* The script, lines 434-458, one action per call. *)

Running == exit_code = None

\* sys.exit(1): the process ends where it is
Exit1 == exit_code' = Num(1)

NoSheet == [header |-> FALSE, values |-> None]

\* line 439, get_data(start_date, end_date)
GetData ==
    /\ pc = "get_data" /\ Running
    /\ IF DateGate(start_day, finish_day) # "ok"
       THEN /\ log' = log \cup {"get_data"}
            /\ Exit1
            /\ UNCHANGED <<pc, requests, api_data>>
       ELSE /\ requests' = requests + 1
            /\ IF server.up
               THEN /\ api_data' = server.body
                    /\ pc' = "validate_data"
                    /\ UNCHANGED <<log, exit_code>>
               ELSE /\ log' = log \cup {"get_data"}
                    /\ Exit1
                    /\ UNCHANGED <<pc, api_data>>
    /\ UNCHANGED <<start_day, finish_day, server, valid_data, gs_data, gs_auth,
                   sheet, con, txn, table_exists, committed, last_load>>

\* line 442, validate_data(api_data1); an exception that leaves it is caught
\* at lines 456-458
ValidateData ==
    /\ pc = "validate_data" /\ Running
    /\ LET r == validate_data(api_data) IN
       CASE r.kind = "return" ->
              /\ valid_data' = r.value
              /\ pc' = "calc_for_gsheets"
              /\ UNCHANGED <<exit_code, log>>
         [] r.kind = "exit" ->
              /\ Exit1
              /\ log' = IF api_data = <<>> THEN log ELSE log \cup {"validate_data"}
              /\ UNCHANGED <<pc, valid_data>>
         [] r.kind = "raise" ->
              /\ Exit1
              /\ log' = log \cup {"validate_data", "main"}
              /\ UNCHANGED <<pc, valid_data>>
    /\ UNCHANGED <<start_day, finish_day, server, requests, api_data, gs_data,
                   gs_auth, sheet, con, txn, table_exists, committed, last_load>>

\* line 445, calc_for_gsheets(valid_data1)
CalcForGsheets ==
    /\ pc = "calc_for_gsheets" /\ Running
    /\ gs_data' = calc_for_gsheets(valid_data)
    /\ log' = IF CalcOutcome(valid_data).raised = "" THEN log
              ELSE log \cup {"calc_for_gsheets"}
    /\ pc' = "auth_goo_shee"
    /\ UNCHANGED <<exit_code, start_day, finish_day, server, requests, api_data,
                   valid_data, gs_auth, sheet, con, txn, table_exists,
                   committed, last_load>>

\* line 446, auth_goo_shee(): the client, or None after an exception (printed,
\* not logged)
AuthGooShee ==
    /\ pc = "auth_goo_shee" /\ Running
    /\ gs_auth' \in {Str("client"), None}
    /\ pc' = "GoogleSheets"
    /\ UNCHANGED <<exit_code, log, start_day, finish_day, server, requests,
                   api_data, valid_data, gs_data, sheet, con, txn, table_exists,
                   committed, last_load>>

\* line 447, GoogleSheets(gs_auth, ...): open() raises on None, and may raise
\* on a client; the exception is caught at lines 456-458
OpenGoogleSheets ==
    /\ pc = "GoogleSheets" /\ Running
    /\ \E opens \in BOOLEAN :
         IF gs_auth # None /\ opens
         THEN /\ pc' = "load_aggregated_data_to_sheets"
              /\ UNCHANGED <<exit_code, log>>
         ELSE /\ Exit1
              /\ log' = log \cup {"main"}
              /\ UNCHANGED pc
    /\ UNCHANGED <<start_day, finish_day, server, requests, api_data,
                   valid_data, gs_data, gs_auth, sheet, con, txn, table_exists,
                   committed, last_load>>

\* line 448, load_aggregated_data_to_sheets("Sheet1", gs_data), lines 414-430:
\* the header, then a row per item of the dict; None has no items(), and any
\* exception is logged.  written: how far the calls to the API went.
LoadAggregatedDataToSheets ==
    /\ pc = "load_aggregated_data_to_sheets" /\ Running
    /\ \E written \in {"nothing", "header", "all"} :
         /\ sheet' = CASE written = "nothing" -> sheet
                       [] written = "header" -> [header |-> TRUE, values |-> None]
                       [] written = "all" -> [header |-> TRUE, values |-> gs_data]
         /\ log' = IF written = "all" /\ gs_data # None THEN log
                   ELSE log \cup {"load_aggregated_data_to_sheets"}
    /\ pc' = "Database"
    /\ UNCHANGED <<exit_code, start_day, finish_day, server, requests, api_data,
                   valid_data, gs_data, gs_auth, con, txn, table_exists,
                   committed, last_load>>

\* line 451, Database(...), lines 182-191
Connect ==
    /\ pc = "Database" /\ Running
    /\ \E connects \in BOOLEAN :
         IF connects
         THEN /\ con' = "open"
              /\ pc' = "get_all_tables"
              /\ UNCHANGED <<exit_code, log>>
         ELSE /\ Exit1
              /\ log' = log \cup {"Database"}
              /\ UNCHANGED <<pc, con>>
    /\ UNCHANGED <<start_day, finish_day, server, requests, api_data,
                   valid_data, gs_data, gs_auth, sheet, txn, table_exists,
                   committed, last_load>>

\* line 452, db.get_all_tables()
GetAllTables ==
    /\ pc = "get_all_tables" /\ Running
    /\ \E fails \in BOOLEAN : DoGetAllTables(fails)
    /\ pc' = "create_table"
    /\ UNCHANGED <<exit_code, start_day, finish_day, server, requests, api_data,
                   valid_data, gs_data, gs_auth, sheet, con, table_exists,
                   committed, last_load>>

\* line 453, db.create_table("ppf_2024_may")
CreateTable ==
    /\ pc = "create_table" /\ Running
    /\ \E fails \in BOOLEAN : DoCreateTable(fails)
    /\ pc' = "load_data_to_db"
    /\ UNCHANGED <<exit_code, start_day, finish_day, server, requests, api_data,
                   valid_data, gs_data, gs_auth, sheet, con, committed,
                   last_load>>

\* line 454, db.load_data_to_db("ppf_2024_may", valid_data1)
LoadDataToDb ==
    /\ pc = "load_data_to_db" /\ Running
    /\ \E failAt \in FailPoints(valid_data) : DoLoad(valid_data, failAt)
    /\ pc' = "end"
    /\ UNCHANGED <<exit_code, start_day, finish_day, server, requests, api_data,
                   valid_data, gs_data, gs_auth, sheet, con>>

\* the end of the script: exit status 0; the interpreter drops db and its
\* connection (lines 193-199)
ScriptEnd ==
    /\ pc = "end" /\ Running
    /\ exit_code' = Num(0)
    /\ con' = "closed"
    /\ txn' = "idle"
    /\ UNCHANGED <<pc, log, start_day, finish_day, server, requests, api_data,
                   valid_data, gs_data, gs_auth, sheet, table_exists, committed,
                   last_load>>

\* the state in which the script starts, but for its inputs
InitScript ==
    /\ exit_code = None
    /\ log = {}
    /\ requests = 0
    /\ api_data = <<>>
    /\ gs_data = None
    /\ gs_auth = None
    /\ sheet = NoSheet
    /\ last_load = NoLoad

\* A run of the script: its dates are those of lines 437-438; the API answers
\* any batch, or not at all; the table is absent or holds earlier rows.
Init ==
    /\ InitScript
    /\ pc = "get_data"
    /\ valid_data = <<>>
    /\ start_day = Ymd(2024, 5, 1)
    /\ finish_day = Ymd(2024, 5, 1)
    /\ server \in {[up |-> FALSE, body |-> <<>>]}
                  \cup {[up |-> TRUE, body |-> b] :
                          b \in SeqsUpTo(GoodRaw \cup BadRaw, MaxBatch)}
    /\ con = "none"
    /\ txn = "idle"
    /\ \/ table_exists = FALSE /\ committed = EmptyBag
       \/ table_exists = TRUE /\ committed \in ScriptTables

Next ==
    \/ GetData
    \/ ValidateData
    \/ CalcForGsheets
    \/ AuthGooShee
    \/ OpenGoogleSheets
    \/ LoadAggregatedDataToSheets
    \/ Connect
    \/ GetAllTables
    \/ CreateTable
    \/ LoadDataToDb
    \/ ScriptEnd

Spec == Init /\ [][Next]_vars

-----------------------------------------------------------------------------
(* get_data on its own: every pair of date strings. *)

InitDates ==
    /\ InitScript
    /\ pc = "get_data"
    /\ valid_data = <<>>
    /\ start_day \in Days
    /\ finish_day \in Days
    /\ server \in {[up |-> FALSE, body |-> <<>>],
                   [up |-> TRUE,
                    body |-> <<Raw(Str("u1"), None, Num(1), Str("submit"), Str(T1000))>>]}
    /\ con = "none"
    /\ txn = "idle"
    /\ table_exists = FALSE
    /\ committed = EmptyBag

SpecDates == InitDates /\ [][GetData]_vars

-----------------------------------------------------------------------------
(* calc_for_gsheets on its own: every sequence of canonical records. *)

InitAgg ==
    /\ InitScript
    /\ pc = "calc_for_gsheets"
    /\ start_day = Ymd(2024, 5, 1)
    /\ finish_day = Ymd(2024, 5, 1)
    /\ server = [up |-> FALSE, body |-> <<>>]
    /\ valid_data \in SeqsUpTo(AggRecords, MaxAgg)
    /\ con = "none"
    /\ txn = "idle"
    /\ table_exists = FALSE
    /\ committed = EmptyBag

SpecAgg == InitAgg /\ [][CalcForGsheets]_vars

-----------------------------------------------------------------------------
(* Database on its own: a client that holds one connection and one batch,  *)
(* valid_data, and loads it any number of times (the job run again on the  *)
(* same dates), into a table that holds rows of earlier loads.             *)

\* db.load_data_to_db(table, valid_data)
ClientLoad ==
    /\ pc = "client" /\ con = "open"
    /\ \E failAt \in FailPoints(valid_data) : DoLoad(valid_data, failAt)
    /\ UNCHANGED <<pc, exit_code, start_day, finish_day, server, requests,
                   api_data, valid_data, gs_data, gs_auth, sheet, con>>

\* del db, lines 193-199: the connection is closed, what was not committed is
\* rolled back
ClientDel ==
    /\ pc = "client" /\ con = "open"
    /\ con' = "closed"
    /\ txn' = "idle"
    /\ UNCHANGED <<pc, exit_code, log, start_day, finish_day, server, requests,
                   api_data, valid_data, gs_data, gs_auth, sheet, table_exists,
                   committed, last_load>>

InitLoad ==
    /\ InitScript
    /\ pc = "client"
    /\ valid_data \in SeqsUpTo(LoadRecords, MaxLoad)
    /\ start_day = Ymd(2024, 5, 1)
    /\ finish_day = Ymd(2024, 5, 1)
    /\ server = [up |-> FALSE, body |-> <<>>]
    /\ con = "open"
    /\ txn = "idle"
    /\ table_exists = TRUE
    /\ committed \in ClientTables

NextLoad ==
    \/ ClientLoad
    \/ ClientDel

SpecLoad == InitLoad /\ [][NextLoad]_vars

-----------------------------------------------------------------------------
(* The claims. *)

\* a record of the batch is rejected by validate_data
HasRejected(data) == \E i \in DOMAIN data : ValidateRow(data[i]).err # ""

\* nothing after validate_data has run: no aggregate, no publication, no
\* connection to the store, no load
NothingDownstream ==
    /\ valid_data = <<>>
    /\ gs_data = None
    /\ sheet = NoSheet
    /\ con = "none"
    /\ ~last_load.called

\* C1: a raw batch with at least one rejected record is never returned by
\* validate_data, as a shorter list or otherwise: the script stays at
\* validate_data, where it ends with exit status 1, and nothing is
\* aggregated, published, inserted or committed in that run.
C1_AllOrNothing ==
    (pc # "get_data" /\ HasRejected(api_data)) =>
        /\ pc = "validate_data"
        /\ exit_code \in {None, Num(1)}
        /\ NothingDownstream

\* C1 witness: a batch of two records, the first with is_correct = 2 and the
\* second valid, has ended the run with exit status 1.
C1_Witness ==
    /\ pc = "validate_data"
    /\ exit_code = Num(1)
    /\ Len(api_data) = 2
    /\ api_data[1].is_correct = Num(2)
    /\ ValidateRow(api_data[2]).err = ""

\* C10 as claimed: validate_data on an empty raw batch does not abort the run.
C10_EmptyBatchContinues ==
    (pc = "validate_data" /\ api_data = <<>>) => exit_code = None

\* C10, amended: validate_data on an empty raw batch does not return; it ends
\* the process with exit status 1 (line 95), before the aggregator and the
\* loader.
C10_EmptyBatchAborts ==
    (pc # "get_data" /\ api_data = <<>>) =>
        /\ pc = "validate_data"
        /\ exit_code \in {None, Num(1)}
        /\ NothingDownstream

\* C10 witness: the API answered an empty batch and the run has ended with
\* exit status 1 at validate_data.
C10_Witness ==
    /\ pc = "validate_data"
    /\ server.up
    /\ requests = 1
    /\ api_data = <<>>
    /\ exit_code = Num(1)

\* C4 as claimed: a failed connection ends the run with exit status 1, and a
\* run in which a query of create_table or load_data_to_db raised a storage
\* error never ends with exit status 0.
C4_StorageErrorsFatal ==
    /\ "Database" \in log => exit_code = Num(1)
    /\ exit_code = Num(0) => log \cap {"create_table", "load_data_to_db"} = {}

\* the records of data that have a user_id
Identified(data) == {i \in DOMAIN data : data[i].user_id # None}

\* the graded records of data that have a user_id
Graded(data) == {i \in Identified(data) : data[i].is_correct # None}

\* created_at has the form "YYYY-MM-DD HH:MM:SS" of a CanonicalAttempt
IsTimestamp(ca) == ca.v \in {T1000, T1030, T1100}

\* calc_for_gsheets has returned
Aggregated == pc = "auth_goo_shee"

\* C6 as claimed: for a sequence in which no record with a user_id is graded,
\* calc_for_gsheets returns a report with the right totals and a defined
\* percentage.
C6_ZeroSubmitsReport ==
    (Aggregated /\ Graded(valid_data) = {}) =>
        /\ gs_data # None
        /\ gs_data.all_attempts = Cardinality(Identified(valid_data))
        /\ gs_data.run_attempts = Cardinality(Identified(valid_data))
        /\ gs_data.submits = 0
        /\ gs_data.successfull_submits = 0
        /\ gs_data.percent_of_successfull_submits \in 0..10000

\* C7: for a sequence of canonical records (created_at a timestamp) with at
\* least one graded record that has a user_id, calc_for_gsheets returns a
\* report in which "all attempts" counts the records with a user_id,
\* run_attempts those of them with is_correct None, submits those with
\* is_correct 0 or 1, "successfull submits" those with is_correct 1 and "unique
\* users" the distinct user_id values, the records without a user_id being
\* counted nowhere, and all attempts = run_attempts + submits.
C7_Counts ==
    (/\ Aggregated
     /\ Graded(valid_data) # {}
     /\ \A i \in DOMAIN valid_data : IsTimestamp(valid_data[i].created_at)) =>
        /\ gs_data # None
        /\ gs_data.all_attempts = Cardinality(Identified(valid_data))
        /\ gs_data.run_attempts =
             Cardinality({i \in Identified(valid_data) :
                            valid_data[i].is_correct = None})
        /\ gs_data.submits = Cardinality(Graded(valid_data))
        /\ gs_data.successfull_submits =
             Cardinality({i \in Identified(valid_data) :
                            valid_data[i].is_correct = Num(1)})
        /\ gs_data.unique_users =
             Cardinality({valid_data[i].user_id : i \in Identified(valid_data)})
        /\ gs_data.all_attempts = gs_data.run_attempts + gs_data.submits

\* C7 witness: the three records of u1 with is_correct None, 1, 0 at 10:00,
\* 10:30 and 11:00 have been aggregated to 3, 1, 2, 1 and one user.
C7_Witness ==
    /\ Aggregated
    /\ valid_data = <<Canonical(Str("u1"), None, T1000),
                      Canonical(Str("u1"), Num(1), T1030),
                      Canonical(Str("u1"), Num(0), T1100)>>
    /\ gs_data # None
    /\ gs_data.all_attempts = 3
    /\ gs_data.run_attempts = 1
    /\ gs_data.submits = 2
    /\ gs_data.successfull_submits = 1
    /\ gs_data.unique_users = 1

\* a date string that is a date of the calendar in the form YYYY-MM-DD
WellFormed(s) == MatchesPattern(s) /\ StrptimeOk(s)

\* start_day <= finish_day and finish_day - start_day <= 6 days
InRange(start, finish) ==
    /\ Ordinal(start) <= Ordinal(finish)
    /\ Ordinal(finish) - Ordinal(start) <= 6

\* get_data has returned or has ended the process
Extracted == pc # "get_data" \/ exit_code # None

SameTime(i) ==
    {r \in DOMAIN last_load.trace[i].seen :
        r.created_at = last_load.vdata[i].created_at}

\* C2: when load_data_to_db is called again with the batch of the call
\* before, on the same table, and both calls complete, the second call inserts
\* nothing, finds a match for every record and leaves the number of stored
\* rows as the first call left it.
C2_Idempotent ==
    (last_load.again /\ last_load.ok) =>
        /\ last_load.inserted = 0
        /\ BagCardinality(committed) = BagCardinality(last_load.before)
        /\ Len(last_load.trace) = Len(last_load.vdata)
        /\ \A i \in DOMAIN last_load.trace : last_load.trace[i].count > 0

\* C2 witness: a batch that repeats a record without user_id has been loaded
\* twice, the first call having inserted a row.
C2_Witness ==
    /\ last_load.again
    /\ last_load.ok
    /\ last_load.prev_inserted > 0
    /\ Len(last_load.vdata) = 2
    /\ last_load.vdata[1] = last_load.vdata[2]
    /\ last_load.vdata[1].user_id = None

C5_NoPartialCommit ==
    /\ (last_load.called /\ ~last_load.ok) => committed = last_load.before
    /\ (last_load.called /\ last_load.ok) =>
          BagCardinality(committed) =
              BagCardinality(last_load.before) + last_load.inserted

\* C5 witness: a call failed after its transaction had inserted a row.
C5_Witness ==
    /\ last_load.called
    /\ ~last_load.ok
    /\ last_load.rolled_back > 0

\* C9 as claimed: in a call that completes, the skipped count logged is the
\* number of records that had a matching row, and inserted + skipped is the
\* number of records of the batch.
C9_Accounting ==
    (last_load.called /\ last_load.ok) =>
        /\ last_load.skipped_count =
              Cardinality({i \in DOMAIN last_load.trace :
                             last_load.trace[i].count > 0})
        /\ last_load.inserted + last_load.skipped_count = Len(last_load.vdata)

=============================================================================
